---- MODULE Spec2Model ----
(***************************************************************************)
(* TouristApp_BC3413: the itinerary planner script (src/location.py) and   *)
(* the cuisine-preference handler (src/feature_cuisine.py and its          *)
(* case-insensitive revision in src/test.py).                              *)
(*                                                                         *)
(* Text is a sequence of one-character strings, so that lower-casing,      *)
(* stripping and substring search are computed, not assumed.  A missing    *)
(* (NaN) text cell is the one-element sequence NaN.                        *)
(***************************************************************************)
EXTENDS Integers, Sequences, FiniteSets, TLC

\* ------------------------------------------------------------------ bounds
\* rows of DatesofHawkerCentresClosure.csv that are loaded into df
NumCentres == 3

\* reorder requests followed through the edit loop (the loop itself has no limit)
MaxEdits == 1

\* rows of menu_items.csv
MaxItems == 2

\* frames of display_main_menu the interpreter allows on the stack before it
\* raises RecursionError (sys.getrecursionlimit() is 1000 by default)
MaxDepth == 1000

\* ------------------------------------------------------------------ text
NaN == <<"NaN">>

Upper == <<"A", "B", "C", "D", "E", "F", "G", "H", "I", "J", "K", "L", "M", "N",
          "O", "P", "Q", "R", "S", "T", "U", "V", "W", "X", "Y", "Z">>

Lower == <<"a", "b", "c", "d", "e", "f", "g", "h", "i", "j", "k", "l", "m", "n",
          "o", "p", "q", "r", "s", "t", "u", "v", "w", "x", "y", "z">>

\* str.lower() on one character
lower_char(c) ==
    IF \E i \in 1..26 : Upper[i] = c
      THEN Lower[CHOOSE i \in 1..26 : Upper[i] = c]
      ELSE c

\* str.lower()
lower(s) == [i \in 1..Len(s) |-> lower_char(s[i])]

RECURSIVE lstrip(_)
lstrip(s) == IF s # <<>> /\ Head(s) = " " THEN lstrip(Tail(s)) ELSE s

RECURSIVE rstrip(_)
rstrip(s) ==
    IF s # <<>> /\ s[Len(s)] = " " THEN rstrip(SubSeq(s, 1, Len(s) - 1)) ELSE s

\* str.strip()
strip(s) == rstrip(lstrip(s))

\* needle in haystack, as written (case-sensitive); the empty needle is
\* found in every text
contains(hay, needle) ==
    \E i \in 0..(Len(hay) - Len(needle)) :
        SubSeq(hay, i + 1, i + Len(needle)) = needle

\* str.contains with case=True
str_contains_case(cell, pat) == IF cell = NaN THEN FALSE ELSE contains(cell, pat)

\* Series.str.contains(pat, case=False, na=False) on one cell, for a pattern
\* of literal characters: a missing cell gives False
str_contains_nocase(cell, pat) ==
    IF cell = NaN THEN FALSE ELSE contains(lower(cell), lower(pat))

Digits == <<"0", "1", "2", "3", "4", "5", "6", "7", "8", "9">>

IsDigit(c) == \E d \in 1..10 : Digits[d] = c

DigitVal(c) == (CHOOSE d \in 1..10 : Digits[d] = c) - 1

RECURSIVE DigitsVal(_)
DigitsVal(s) ==
    IF s = <<>> THEN 0
    ELSE 10 * DigitsVal(SubSeq(s, 1, Len(s) - 1)) + DigitVal(s[Len(s)])

\* int(text): surrounding blanks are ignored, one optional sign, then one or
\* more digits; anything else raises ValueError (ok = FALSE)
int(text) ==
    LET t == strip(text)
        signed == t # <<>> /\ Head(t) \in {"-", "+"}
        body == IF signed THEN Tail(t) ELSE t
        ok == body # <<>> /\ \A i \in 1..Len(body) : IsDigit(body[i])
    IN  IF ~ok THEN [ok |-> FALSE, val |-> 0]
        ELSE [ok |-> TRUE,
              val |-> IF signed /\ Head(t) = "-" THEN 0 - DigitsVal(body)
                      ELSE DigitsVal(body)]

\* ------------------------------------------------------------------ data
\* rows of the closure-dates table: name and coordinates, in file order
HcTable ==
    << [name |-> <<"B", "e", "d", "o", "k">>, latitude_hc |-> 0, longitude_hc |-> 1],
       [name |-> <<"B", "u", "k", "i", "t">>, latitude_hc |-> 0, longitude_hc |-> 5],
       [name |-> <<"A", "d", "a", "m">>, latitude_hc |-> 0, longitude_hc |-> 3],
       [name |-> <<"A", "b", "e", "l">>, latitude_hc |-> 1, longitude_hc |-> 2],
       [name |-> <<"M", "a", "k">>, latitude_hc |-> 2, longitude_hc |-> 4] >>

\* df = pd.read_csv(...): row i of the file has index label i - 1
df == SubSeq(HcTable, 1, NumCentres)

\* df.index
df_index == 0..(Len(df) - 1)

\* df.loc[label]
df_loc(label) == df[label + 1]

\* what the geocoder can resolve an address to
GeoCoords == {<<0, 0>>, <<0, 2>>}

\* geodesic(a, b).km, compared only: the squared length in units of 100 m
\* near the equator, where a degree of latitude is 110.6 km and a degree of
\* longitude 111.3 km
geodesic(a, b) ==
    LET dlat == 1106 * (a[1] - b[1])
        dlon == 1113 * (a[2] - b[2])
    IN  dlat * dlat + dlon * dlon


\* ------------------------------------------------------------------ state
VARIABLES
    \* the itinerary script, src/location.py
    pc,             \* where the script is: "start", "select", "edit", "final",
                    \* or "crashed" after an uncaught exception
    user_coords,    \* (latitude, longitude) of the user, None until resolved
    selected_rows,  \* index labels of the rows picked, in pick order
    itinerary,      \* the stops, in visiting order
    out,            \* the diagnostic the last step printed, "" if none
    req,            \* history: what the last reorder request was
    edits,          \* history: reorder requests handled so far
    \* a CuisineFeatureHandler and the files it reads
    impl,           \* the file whose handler runs: "feature_cuisine" or "test"
    menu_items_csv, \* rows of menu_items.csv
    stalls_csv,     \* rows of stalls.csv
    handler,        \* menu_items_df, stalls_df, merged_df: None until loaded
    preferences,    \* the CuisinePreferences of the last filter call
    result,         \* what the last filter call gave
    fpc,            \* where the session is: "idle", "new", "loaded", "filtered",
                    \* then "displayed", "stats", "printed", "done"
    \* what the session shows after the filter
    shown,          \* what display_filtered_items printed
    stats,          \* what get_statistics returned
    breakdown,      \* the lines printed under "Breakdown by cuisine"
    exported,       \* rows of filtered_cuisine_data.csv, None while not written
    \* the budget recommendation script, src/unnamed/part_000
    hawker_centers_csv, \* rows of hawker_centers.csv
    full_data,      \* menu items joined with stalls and hawker centres
    recommended,    \* the rows within the budget
    bpc,            \* where the script is: "idle", "merge1", "budget1",
                    \* "merge2", "budget2", "done", "crashed"
    \* the main menu, src/main.py
    mpc,            \* where the process is: "idle", "boot", "menu" (inside
                    \* display_main_menu), or the exception it ended with
    depth,          \* frames of display_main_menu on the stack
    menu_choice     \* the last choice read at the menu prompt, None if none

svars == <<pc, user_coords, selected_rows, itinerary, out, req, edits>>

fvars == <<impl, menu_items_csv, stalls_csv, handler, preferences, result, fpc>>

tvars == <<shown, stats, breakdown, exported>>

bvars == <<hawker_centers_csv, full_data, recommended, bpc>>

mvars == <<mpc, depth, menu_choice>>

vars == <<svars, fvars, tvars, bvars, mvars>>

None == <<>>

\* while len(selected_rows) < 5
MaxPicks == 5

\* ------------------------------------------------------------------ route
\* (row['latitude_hc'], row['longitude_hc']) of the row with this label
hc_coords(label) == <<df_loc(label).latitude_hc, df_loc(label).longitude_hc>>

\* idxmin gone wrong: the first row, whatever its distance
idxmin_first_row(distances, labels) == labels[1]

\* idxmin that settles a tie the other way: the last position that holds the
\* minimum
idxmin_last(distances, labels) ==
    labels[CHOOSE k \in 1..Len(distances) :
               /\ \A j \in 1..Len(distances) : distances[k] <= distances[j]
               /\ \A j \in (k + 1)..Len(distances) : distances[j] > distances[k]]

\* distances.idxmin(): the label at the first position that holds the minimum
idxmin(distances, labels) ==
    labels[CHOOSE k \in 1..Len(distances) :
               /\ \A j \in 1..Len(distances) : distances[k] <= distances[j]
               /\ \A j \in 1..(k - 1) : distances[j] > distances[k]]

\* remaining.drop(label): every row that carries the label goes
drop(remaining, label) ==
    LET keep(l) == l # label IN SelectSeq(remaining, keep)

\* The while loop of calculate_best_route.  remaining is the index of the
\* frame, one label per row.  A stop of the route is [idx, rows]: the label
\* and the number of rows remaining.loc[label] returned; with rows > 1 the
\* lookup is a frame, not a row, the coordinates taken from it are Series,
\* and geodesic() raises ValueError on them in the next iteration.
RECURSIVE best_route_loop(_, _, _)
best_route_loop(route, remaining, current_loc) ==
    IF remaining = <<>> THEN [route |-> route, raised |-> FALSE]
    ELSE IF ~current_loc.scalar THEN [route |-> route, raised |-> TRUE]
    ELSE
        LET distances ==
                [k \in 1..Len(remaining) |->
                    geodesic(current_loc.at, hc_coords(remaining[k]))]
            nearest_idx == idxmin(distances, remaining)
            rows == Cardinality({k \in 1..Len(remaining) : remaining[k] = nearest_idx})
        IN  best_route_loop(
                Append(route, [idx |-> nearest_idx, rows |-> rows]),
                drop(remaining, nearest_idx),
                [scalar |-> rows = 1, at |-> hc_coords(nearest_idx)])

\* calculate_best_route(start_coords, hcs_df)
calculate_best_route(start_coords, hcs_df) ==
    best_route_loop(<<>>, hcs_df, [scalar |-> TRUE, at |-> start_coords])

\* ------------------------------------------------------------------ inputs
Done == <<"d", "o", "n", "e">>

\* what the user may type at the search prompt
Queries ==
    { Done, <<" ", "D", "o", "n", "e", " ">>, <<>>, <<"b">>, <<"D">>,
      <<"a", "d">>, <<"z">>, <<"k", " ">> }

\* what the user may type at the ID prompt
Choices ==
    { <<>>, <<" ">>, <<"x">>, <<"-", "1">>, <<"9">>, <<" ", "1">> }
        \cup { <<Digits[i + 1]>> : i \in df_index }

\* matches = df[df['name'].str.contains(query, case=False, na=False)], its index
matches_index(query) ==
    {i \in df_index : str_contains_nocase(df_loc(i).name, query)}

\* one piece of new_order.split(','): the text of a number
piece(k) == IF k < 0 THEN <<"-", Digits[1 - k]>> ELSE <<Digits[k + 1]>>

\* the pieces a reorder request for n stops is built from
Pieces(n) == {piece(k) : k \in -1..(n + 1)} \cup {<<"x">>, <<" ", "2">>, <<>>}

\* the requests tried on an itinerary of n stops: every permutation of 1..n,
\* 1..n with one piece replaced, and requests one piece short or long
ReorderInputs(n) ==
    LET ident(m) == [i \in 1..m |-> piece(i)]
    IN  { [i \in 1..n |-> piece(p[i])] :
            p \in {f \in [1..n -> 1..n] : \A i, j \in 1..n : f[i] = f[j] => i = j} }
        \cup { [ident(n) EXCEPT ![i] = x] : i \in 1..n, x \in Pieces(n) }
        \cup { ident(n + 1), <<<<>>>>, <<<<"x">>>> }
        \cup (IF n > 1 THEN {ident(n - 1)} ELSE {})


\* int() and the name search on everything that can be typed, computed once
int_of == [text \in Choices \cup Pieces(NumCentres) |-> int(text)]

is_done == [query \in Queries |-> lower(strip(query)) = Done]

matches_of == [query \in Queries |-> matches_index(strip(query))]

\* the requests for every length an itinerary can have
reorder_inputs == [n \in 0..NumCentres |-> ReorderInputs(n)]

\* ------------------------------------------------------------------ script
\* no CuisineFeatureHandler exists while the itinerary script runs
HandlerIdle ==
    /\ impl = "none"
    /\ menu_items_csv = <<>>
    /\ stalls_csv = <<>>
    /\ handler = <<>>
    /\ preferences = <<>>
    /\ result = <<>>
    /\ fpc = "idle"

\* nothing shown, counted or exported yet
TailIdle ==
    /\ shown = None
    /\ stats = None
    /\ breakdown = None
    /\ exported = None

\* the budget script is not running
BudgetIdle ==
    /\ hawker_centers_csv = <<>>
    /\ full_data = None
    /\ recommended = None
    /\ bpc = "idle"

\* the main menu is not running
MainIdle ==
    /\ mpc = "idle"
    /\ depth = 0
    /\ menu_choice = None

Init ==
    /\ pc = "start"
    /\ user_coords = None
    /\ selected_rows = <<>>
    /\ itinerary = <<>>
    /\ out = ""
    /\ req = "none"
    /\ edits = 0
    /\ HandlerIdle
    /\ TailIdle
    /\ BudgetIdle
    /\ MainIdle

\* get_coords found the address: the start-location loop ends
StartLocationFound(coords) ==
    /\ pc = "start"
    /\ user_coords' = coords
    /\ out' = "Location recognized!"
    /\ pc' = "select"
    /\ UNCHANGED <<selected_rows, itinerary, req, edits>>
    /\ UNCHANGED <<fvars, tvars, bvars, mvars>>

\* the geocoder knows no such address: get_coords returns None
StartLocationUnknown ==
    /\ pc = "start"
    /\ user_coords' = None
    /\ out' = "Location not found."
    /\ UNCHANGED <<pc, selected_rows, itinerary, req, edits>>
    /\ UNCHANGED <<fvars, tvars, bvars, mvars>>

\* the geocoder raised and get_coords, having printed the error, lets the
\* exception go on
StartGeocodingError_uncaught ==
    /\ pc = "start"
    /\ user_coords' = None
    /\ out' = "Geocoding error. Location not found."
    /\ pc' = "crashed"
    /\ UNCHANGED <<selected_rows, itinerary, req, edits>>
    /\ UNCHANGED <<fvars, tvars, bvars, mvars>>

\* the geocoder raised: get_coords prints the error and returns None
StartGeocodingError ==
    /\ pc = "start"
    /\ user_coords' = None
    /\ out' = "Geocoding error. Location not found."
    /\ UNCHANGED <<pc, selected_rows, itinerary, req, edits>>
    /\ UNCHANGED <<fvars, tvars, bvars, mvars>>

\* The selection loop is over with these rows picked: selected_df is built
\* and the initial route computed; a ValueError out of it ends the script.
LeaveSelection(rows) ==
    LET r == calculate_best_route(user_coords, rows)
    IN  IF r.raised
          THEN pc' = "crashed" /\ UNCHANGED itinerary
          ELSE pc' = "edit" /\ itinerary' = r.route

\* 'done' that leaves the loop whatever has been picked
SelectDone_unguarded(query) ==
    /\ pc = "select"
    /\ is_done[query]
    /\ LeaveSelection(selected_rows)
    /\ out' = ""
    /\ UNCHANGED <<user_coords, selected_rows, req, edits>>
    /\ UNCHANGED <<fvars, tvars, bvars, mvars>>

\* 'done' with at least one row picked
SelectDone(query) ==
    /\ pc = "select"
    /\ is_done[query]
    /\ Len(selected_rows) > 0
    /\ LeaveSelection(selected_rows)
    /\ out' = ""
    /\ UNCHANGED <<user_coords, selected_rows, req, edits>>
    /\ UNCHANGED <<fvars, tvars, bvars, mvars>>

\* 'done' with nothing picked
SelectDoneEmpty(query) ==
    /\ pc = "select"
    /\ is_done[query]
    /\ Len(selected_rows) = 0
    /\ out' = "Please pick at least one!"
    /\ UNCHANGED <<pc, user_coords, selected_rows, itinerary, req, edits>>
    /\ UNCHANGED <<fvars, tvars, bvars, mvars>>

\* no name contains the query
SelectNoMatch(query) ==
    /\ pc = "select"
    /\ ~is_done[query]
    /\ matches_of[query] = {}
    /\ out' = "does not exist in our database"
    /\ UNCHANGED <<pc, user_coords, selected_rows, itinerary, req, edits>>
    /\ UNCHANGED <<fvars, tvars, bvars, mvars>>

\* matches are listed and the user presses Enter at the ID prompt
SelectSearchAgain(query, choice) ==
    /\ pc = "select"
    /\ ~is_done[query]
    /\ matches_of[query] # {}
    /\ strip(choice) = <<>>
    /\ out' = ""
    /\ UNCHANGED <<pc, user_coords, selected_rows, itinerary, req, edits>>
    /\ UNCHANGED <<fvars, tvars, bvars, mvars>>

\* the ID typed is one of the matches: the row is appended; with the fifth
\* row the loop condition fails and the loop is left
SelectAdd(query, choice) ==
    /\ pc = "select"
    /\ ~is_done[query]
    /\ matches_of[query] # {}
    /\ strip(choice) # <<>>
    /\ int_of[choice].ok
    /\ int_of[choice].val \in matches_of[query]
    /\ selected_rows' = Append(selected_rows, int_of[choice].val)
    /\ out' = "Added"
    /\ IF Len(selected_rows') < MaxPicks
         THEN UNCHANGED <<pc, itinerary>>
         ELSE LeaveSelection(selected_rows')
    /\ UNCHANGED <<user_coords, req, edits>>
    /\ UNCHANGED <<fvars, tvars, bvars, mvars>>

\* the ID typed is a number that is not among the matches
SelectNotInResults(query, choice) ==
    /\ pc = "select"
    /\ ~is_done[query]
    /\ matches_of[query] # {}
    /\ strip(choice) # <<>>
    /\ int_of[choice].ok
    /\ int_of[choice].val \notin matches_of[query]
    /\ out' = "That ID was not in the search results."
    /\ UNCHANGED <<pc, user_coords, selected_rows, itinerary, req, edits>>
    /\ UNCHANGED <<fvars, tvars, bvars, mvars>>

\* the ID typed is no number: ValueError
SelectNotNumeric(query, choice) ==
    /\ pc = "select"
    /\ ~is_done[query]
    /\ matches_of[query] # {}
    /\ strip(choice) # <<>>
    /\ ~int_of[choice].ok
    /\ out' = "Please enter a valid numeric ID."
    /\ UNCHANGED <<pc, user_coords, selected_rows, itinerary, req, edits>>
    /\ UNCHANGED <<fvars, tvars, bvars, mvars>>

\* itinerary[i] of a Python list: a negative index counts from the end
py_index_ok(list, i) == 0 - Len(list) <= i /\ i < Len(list)

py_index(list, i) == IF i >= 0 THEN list[i + 1] ELSE list[Len(list) + i + 1]

\* [int(x.strip()) for x in new_order.split(',')], each with its outcome
parse_order(new_order) == [i \in 1..Len(new_order) |-> int_of[new_order[i]]]

\* the request names every position 1..n exactly once
IsBijection(new_order, n) ==
    LET nums == parse_order(new_order)
    IN  /\ Len(new_order) = n
        /\ \A i \in 1..n : nums[i].ok
        /\ \A k \in 1..n : \E i \in 1..n : nums[i].val = k

\* the requests among the inputs that are bijections onto 1..n
bijections == [n \in 0..NumCentres |-> {o \in reorder_inputs[n] : IsBijection(o, n)}]

\* the reorder branch without the '- 1': the numbers typed used as indices
reorder_no_offset(list, new_order) ==
    LET n == Len(list)
        nums == parse_order(new_order)
        parsed == \A i \in 1..Len(nums) : nums[i].ok
        indices == [i \in 1..Len(nums) |-> nums[i].val]
    IN  IF ~parsed
          THEN [out |-> "Invalid format.", itinerary |-> list]
        ELSE IF Len(indices) # n
          THEN [out |-> "Please include all stops.", itinerary |-> list]
        ELSE IF \A i \in 1..n : py_index_ok(list, indices[i])
          THEN [out |-> "", itinerary |-> [i \in 1..n |-> py_index(list, indices[i])]]
        ELSE [out |-> "Invalid format.", itinerary |-> list]

\* The try block of option 2 as a function of the itinerary and of
\* new_order.split(',').  A piece that is no number raises before the length
\* is looked at; an index out of the list's range raises before the itinerary
\* is assigned; both end in the except branch, the itinerary as it was.
reorder(list, new_order) ==
    LET n == Len(list)
        nums == parse_order(new_order)
        parsed == \A i \in 1..Len(nums) : nums[i].ok
        indices == [i \in 1..Len(nums) |-> nums[i].val - 1]
    IN  IF ~parsed
          THEN [out |-> "Invalid format.", itinerary |-> list]
        ELSE IF Len(indices) # n
          THEN [out |-> "Please include all stops.", itinerary |-> list]
        ELSE IF \A i \in 1..n : py_index_ok(list, indices[i])
          THEN [out |-> "", itinerary |-> [i \in 1..n |-> py_index(list, indices[i])]]
        ELSE [out |-> "Invalid format.", itinerary |-> list]

\* Option 2 of the edit loop
EditReorder(new_order) ==
    /\ pc = "edit"
    /\ edits < MaxEdits
    /\ edits' = edits + 1
    /\ req' = IF IsBijection(new_order, Len(itinerary)) THEN "bijection" ELSE "other"
    /\ LET r == reorder(itinerary, new_order)
       IN  /\ out' = r.out
           /\ itinerary' = r.itinerary
    /\ UNCHANGED <<pc, user_coords, selected_rows>>
    /\ UNCHANGED <<fvars, tvars, bvars, mvars>>

\* Option 1: the loop ends and the final itinerary is displayed
EditFinalize ==
    /\ pc = "edit"
    /\ pc' = "final"
    /\ out' = "Itinerary Complete!"
    /\ UNCHANGED <<user_coords, selected_rows, itinerary, req, edits>>
    /\ UNCHANGED <<fvars, tvars, bvars, mvars>>

\* any other option
EditInvalidSelection ==
    /\ pc = "edit"
    /\ out' = "Invalid selection."
    /\ UNCHANGED <<pc, user_coords, selected_rows, itinerary, req, edits>>
    /\ UNCHANGED <<fvars, tvars, bvars, mvars>>

Next ==
    \/ \E coords \in GeoCoords : StartLocationFound(coords)
    \/ StartLocationUnknown
    \/ StartGeocodingError
    \/ \E query \in Queries : SelectDone(query)
    \/ \E query \in Queries : SelectDoneEmpty(query)
    \/ \E query \in Queries : SelectNoMatch(query)
    \/ \E query \in Queries, choice \in Choices : SelectSearchAgain(query, choice)
    \/ \E query \in Queries, choice \in Choices : SelectAdd(query, choice)
    \/ \E query \in Queries, choice \in Choices : SelectNotInResults(query, choice)
    \/ \E query \in Queries, choice \in Choices : SelectNotNumeric(query, choice)
    \/ \E new_order \in reorder_inputs[Len(itinerary)] : EditReorder(new_order)
    \/ EditFinalize
    \/ EditInvalidSelection

Spec == Init /\ [][Next]_vars


\* ------------------------------------------------------------------ handler data
Chinese == <<"C", "h", "i", "n", "e", "s", "e">>

Malay == <<"M", "a", "l", "a", "y">>

Yes == <<"Y", "e", "s">>

No == <<"N", "o">>

PeanutsDairy == <<"P", "e", "a", "n", "u", "t", "s", ",", " ", "D", "a", "i", "r", "y">>

vegetarian == <<"v", "e", "g", "e", "t", "a", "r", "i", "a", "n">>

halal == <<"h", "a", "l", "a", "l">>

\* one row of stalls.csv; stall k stands in hawker centre k
Stall(id, cuisine_type, veg, hal) ==
    [stall_id |-> id, cuisine_type |-> cuisine_type, vegetarian |-> veg, halal |-> hal,
     hawker_center_id |-> id]

\* the stalls.csv files tried
StallTables ==
    { << Stall(1, Chinese, Yes, No), Stall(2, Malay, No, Yes) >>,
      << Stall(1, lower(Chinese), lower(Yes), Yes), Stall(2, Malay, No, Yes) >> }

\* one row of menu_items.csv; stall 3 is in no stalls.csv, and a menu item
\* may have no allergens text; item k costs k dollars
MenuItem(id, stall_id, allergens, is_available) ==
    [item_id |-> id, stall_id |-> stall_id, allergens |-> allergens,
     is_available |-> is_available, price |-> id]

\* the menu_items.csv files tried: row i has item_id i
Menus(n) ==
    { [i \in 1..n |-> MenuItem(i, f[i][1], f[i][2], f[i][3])] :
        f \in [1..n -> (1..3) \X {NaN, PeanutsDairy} \X BOOLEAN] }

\* the three menu items of the end-to-end example: two stalls, the third
\* item not available
ExampleMenu ==
    << MenuItem(1, 1, PeanutsDairy, TRUE), MenuItem(2, 2, NaN, TRUE),
       MenuItem(3, 1, NaN, FALSE) >>

\* three available items, two of the Malay stall and then one of the Chinese
TwoMalayMenu ==
    << MenuItem(1, 2, NaN, TRUE), MenuItem(2, 2, PeanutsDairy, TRUE),
       MenuItem(3, 1, NaN, TRUE) >>

MenuTables == Menus(0) \cup Menus(MaxItems) \cup {ExampleMenu, TwoMalayMenu}

\* the preferences tried
CuisineChoices == { <<>>, <<lower(Chinese)>>, <<Malay, Chinese>> }

DietaryChoices == { <<>>, <<vegetarian>>, <<halal>>, <<halal, vegetarian>> }

AllergenChoices == { <<>>, <<<<"n", "u", "t", "s">>>>, <<<<"s", "h", "e", "l", "l", "f", "i", "s", "h">>>>, <<<<"D", "A", "I", "R", "Y">>, <<"s", "o", "y">>>> }

\* CuisinePreferences(cuisines, dietary_restrictions, allergens_to_avoid)
CuisinePreferences ==
    [cuisines : CuisineChoices, dietary_restrictions : DietaryChoices,
     allergens_to_avoid : AllergenChoices]

\* ------------------------------------------------------------------ handler
\* the merge with how='inner': a menu row without its stall is dropped
RECURSIVE merge_inner(_, _)
merge_inner(menu, stalls) ==
    IF menu = <<>> THEN <<>>
    ELSE
        LET item == Head(menu)
            same(st) == st.stall_id = item.stall_id
            found == SelectSeq(stalls, same)
            joined(st) ==
                [item_id |-> item.item_id, stall_id |-> item.stall_id,
                 allergens |-> item.allergens, is_available |-> item.is_available,
                 price |-> item.price,
                 cuisine_type |-> st.cuisine_type, vegetarian |-> st.vegetarian,
                 halal |-> st.halal, hawker_center_id |-> st.hawker_center_id]
        IN  [k \in 1..Len(found) |-> joined(found[k])] \o merge_inner(Tail(menu), stalls)

\* menu_items_df.merge(stalls_df, on='stall_id', how='left'): every menu row,
\* in order, once per stall row with its stall_id; with none, once with the
\* stall columns missing
RECURSIVE merge_left(_, _)
merge_left(menu, stalls) ==
    IF menu = <<>> THEN <<>>
    ELSE
        LET item == Head(menu)
            same(st) == st.stall_id = item.stall_id
            found == SelectSeq(stalls, same)
            joined(st) ==
                [item_id |-> item.item_id, stall_id |-> item.stall_id,
                 allergens |-> item.allergens, is_available |-> item.is_available,
                 price |-> item.price,
                 cuisine_type |-> st.cuisine_type, vegetarian |-> st.vegetarian,
                 halal |-> st.halal, hawker_center_id |-> st.hawker_center_id]
            rows ==
                IF found = <<>>
                  THEN << joined([cuisine_type |-> NaN, vegetarian |-> NaN, halal |-> NaN,
                                  hawker_center_id |-> NaN]) >>
                  ELSE [k \in 1..Len(found) |-> joined(found[k])]
        IN  rows \o merge_left(Tail(menu), stalls)

\* value in list (Series.isin on one cell): a missing cell is in no list
isin(cell, list) == cell # NaN /\ \E i \in 1..Len(list) : list[i] = cell

\* the allergens column holds text (dtype object) when the file has no row
\* or some row has allergens text; with rows and no text it is float64 and
\* its .str accessor raises AttributeError
allergens_is_text(merged) ==
    merged = <<>> \/ \E i \in 1..Len(merged) : merged[i].allergens # NaN

\* for allergen in allergens_to_avoid:
\*     df = df[~df['allergens'].str.contains(allergen, case=False, na=False)]
RECURSIVE exclude_allergens(_, _)
exclude_allergens(rows, allergens_to_avoid) ==
    IF allergens_to_avoid = <<>> THEN rows
    ELSE
        LET keep(row) == ~str_contains_nocase(row.allergens, Head(allergens_to_avoid))
        IN  exclude_allergens(SelectSeq(rows, keep), Tail(allergens_to_avoid))

\* availability with the right count and the wrong rows: as many rows as are
\* available, taken from the top of the frame
available_only_head(rows) ==
    LET keep(row) == row.is_available = TRUE
    IN  SubSeq(rows, 1, Len(SelectSeq(rows, keep)))

\* df = df[df['is_available'] == True]
available_only(rows) ==
    LET keep(row) == row.is_available = TRUE IN SelectSeq(rows, keep)

\* the last stages with availability taken from the frame the call started
\* from instead of from df
filter_tail_from_merged(is_text, frames, prefs) ==
    LET rows == frames[Len(frames)]
        len(fs) == [i \in 1..Len(fs) |-> Len(fs[i])]
    IN  IF prefs.allergens_to_avoid # <<>> /\ ~is_text
          THEN [outcome |-> "AttributeError", df |-> <<>>, counts |-> len(frames),
                frames |-> frames]
          ELSE
            LET f4 == IF prefs.allergens_to_avoid # <<>>
                        THEN Append(frames, exclude_allergens(rows, prefs.allergens_to_avoid))
                        ELSE frames
                d5 == available_only(frames[1])
                f5 == Append(f4, d5)
            IN  [outcome |-> "returned", df |-> d5, counts |-> len(f5), frames |-> f5]

\* The stages after the dietary ones, the same text in both files: allergen
\* exclusion when asked for, then availability.  is_text tells whether the
\* allergens column of the frame is text (a frame cut from another keeps its
\* column types); frames holds the value of df after each stage that has
\* run, the frame the call started from first; counts is what was printed,
\* one len(df) per stage that ran.
filter_tail(is_text, frames, prefs) ==
    LET rows == frames[Len(frames)]
        len(fs) == [i \in 1..Len(fs) |-> Len(fs[i])]
    IN  IF prefs.allergens_to_avoid # <<>> /\ ~is_text
          THEN [outcome |-> "AttributeError", df |-> <<>>, counts |-> len(frames),
                frames |-> frames]
          ELSE
            LET f4 == IF prefs.allergens_to_avoid # <<>>
                        THEN Append(frames, exclude_allergens(rows, prefs.allergens_to_avoid))
                        ELSE frames
                d5 == available_only(f4[Len(f4)])
                f5 == Append(f4, d5)
            IN  [outcome |-> "returned", df |-> d5, counts |-> len(f5), frames |-> f5]

\* The stages of filter_by_cuisine_preferences of src/feature_cuisine.py on
\* the frame df0: the cuisine and the dietary stages compare text as written
filter_stages(is_text, df0, prefs) ==
    LET in_cuisines(row) == isin(row.cuisine_type, prefs.cuisines)
        is_veg(row) == row.vegetarian = Yes
        is_halal(row) == row.halal = Yes
        f1 == IF prefs.cuisines # <<>>
                THEN <<df0, SelectSeq(df0, in_cuisines)>> ELSE <<df0>>
        veg == \E i \in 1..Len(prefs.dietary_restrictions) :
                   prefs.dietary_restrictions[i] = vegetarian
        f2 == IF veg THEN Append(f1, SelectSeq(f1[Len(f1)], is_veg)) ELSE f1
        hal == \E i \in 1..Len(prefs.dietary_restrictions) :
                   prefs.dietary_restrictions[i] = halal
        f3 == IF hal THEN Append(f2, SelectSeq(f2[Len(f2)], is_halal)) ELSE f2
    IN  filter_tail(is_text, f3, prefs)

\* The stages of filter_by_cuisine_preferences of src/test.py: the cuisine
\* and the dietary stages lower-case both sides
filter_stages_ci(is_text, df0, prefs) ==
    LET cuisines_lower == [i \in 1..Len(prefs.cuisines) |-> lower(prefs.cuisines[i])]
        dietary_lower ==
            [i \in 1..Len(prefs.dietary_restrictions) |->
                lower(prefs.dietary_restrictions[i])]
        str_lower(cell) == IF cell = NaN THEN NaN ELSE lower(cell)
        in_cuisines(row) == isin(str_lower(row.cuisine_type), cuisines_lower)
        is_veg(row) == str_lower(row.vegetarian) = lower(Yes)
        is_halal(row) == str_lower(row.halal) = lower(Yes)
        f1 == IF prefs.cuisines # <<>>
                THEN <<df0, SelectSeq(df0, in_cuisines)>> ELSE <<df0>>
        veg == \E i \in 1..Len(dietary_lower) : dietary_lower[i] = vegetarian
        f2 == IF veg THEN Append(f1, SelectSeq(f1[Len(f1)], is_veg)) ELSE f1
        hal == \E i \in 1..Len(dietary_lower) : dietary_lower[i] = halal
        f3 == IF hal THEN Append(f2, SelectSeq(f2[Len(f2)], is_halal)) ELSE f2
    IN  filter_tail(is_text, f3, prefs)

\* filter_by_cuisine_preferences of src/feature_cuisine.py on
\* self.merged_df.copy()
filter_by_cuisine_preferences(merged, prefs) ==
    filter_stages(allergens_is_text(merged), merged, prefs)

\* filter_by_cuisine_preferences of src/test.py
filter_by_cuisine_preferences_ci(merged, prefs) ==
    filter_stages_ci(allergens_is_text(merged), merged, prefs)

\* the handler after load_data(): both files read and merged
loaded_handler ==
    [menu_items_df |-> menu_items_csv, stalls_df |-> stalls_csv,
     merged_df |-> merge_left(menu_items_csv, stalls_csv), is_none |-> FALSE]

\* CuisineFeatureHandler(): nothing is read yet
HandlerInit ==
    /\ impl \in {"feature_cuisine", "test"}
    /\ menu_items_csv \in MenuTables
    /\ stalls_csv \in StallTables
    /\ handler = [menu_items_df |-> <<>>, stalls_df |-> <<>>, merged_df |-> <<>>,
                  is_none |-> TRUE]
    /\ preferences = <<>>
    /\ result = <<>>
    /\ fpc = "new"

\* the itinerary script is not running
ScriptIdle ==
    /\ pc = "idle"
    /\ user_coords = None
    /\ selected_rows = <<>>
    /\ itinerary = <<>>
    /\ out = ""
    /\ req = "none"
    /\ edits = 0

InitFilter == ScriptIdle /\ HandlerInit /\ TailIdle /\ BudgetIdle /\ MainIdle

\* handler.load_data()
LoadData ==
    /\ fpc = "new"
    /\ handler' = loaded_handler
    /\ fpc' = "loaded"
    /\ UNCHANGED <<impl, menu_items_csv, stalls_csv, preferences, result>>
    /\ UNCHANGED <<svars, tvars, bvars, mvars>>

\* handler.filter_by_cuisine_preferences(prefs): the data is loaded first if
\* it has not been
FilterByCuisinePreferences(prefs) ==
    /\ fpc \in {"new", "loaded"}
    /\ handler' = IF handler.is_none THEN loaded_handler ELSE handler
    /\ preferences' = prefs
    /\ result' = IF impl = "feature_cuisine"
                   THEN filter_by_cuisine_preferences(handler'.merged_df, prefs)
                   ELSE filter_by_cuisine_preferences_ci(handler'.merged_df, prefs)
    /\ fpc' = "filtered"
    /\ UNCHANGED <<impl, menu_items_csv, stalls_csv>>
    /\ UNCHANGED <<svars, tvars, bvars, mvars>>

NextFilter ==
    \/ LoadData
    \/ \E prefs \in CuisinePreferences : FilterByCuisinePreferences(prefs)

SpecFilter == InitFilter /\ [][NextFilter]_vars

\* ------------------------------------------------------------------ after the filter
\* the characters of the model's texts, in code point order
Alphabet == <<" ", ",", "-">> \o Digits \o Upper \o Lower

ord(c) == CHOOSE i \in 1..Len(Alphabet) : Alphabet[i] = c

\* a < b for two str
RECURSIVE str_lt(_, _)
str_lt(a, b) ==
    IF b = <<>> THEN FALSE
    ELSE IF a = <<>> THEN TRUE
    ELSE IF Head(a) = Head(b) THEN str_lt(Tail(a), Tail(b))
    ELSE ord(Head(a)) < ord(Head(b))

\* the texts of a set in ascending order
RECURSIVE sorted_keys(_)
sorted_keys(keys) ==
    IF keys = {} THEN <<>>
    ELSE LET least == CHOOSE k \in keys : \A o \in keys \ {k} : str_lt(k, o)
         IN  <<least>> \o sorted_keys(keys \ {least})

\* df.groupby('cuisine_type').size().to_dict(): the groups come in ascending
\* order of the key, rows without a cuisine_type belong to none, and the
\* dict keeps that order
groupby_size(rows) ==
    LET keys == sorted_keys({rows[i].cuisine_type : i \in 1..Len(rows)} \ {NaN})
        size(k) == Cardinality({i \in 1..Len(rows) : rows[i].cuisine_type = k})
    IN  [g \in 1..Len(keys) |-> [cuisine |-> keys[g], count |-> size(keys[g])]]

\* statistics that also give the vegetarian share in percent
statistics_with_share(rows) ==
    IF rows = <<>>
      THEN [outcome |-> "ZeroDivisionError"]
      ELSE
        LET is_veg(row) == row.vegetarian = Yes
            is_halal(row) == row.halal = Yes
        IN  [outcome |-> "returned",
             total_items |-> Len(rows),
             total_stalls |-> Cardinality({rows[i].stall_id : i \in 1..Len(rows)}),
             vegetarian_items |-> Len(SelectSeq(rows, is_veg)),
             halal_items |-> Len(SelectSeq(rows, is_halal)),
             items_by_cuisine |-> groupby_size(rows)]

\* the stats dict of get_statistics over the frame df (the same text in
\* both files)
statistics(rows) ==
    LET is_veg(row) == row.vegetarian = Yes
        is_halal(row) == row.halal = Yes
    IN  [outcome |-> "returned",
         total_items |-> Len(rows),
         total_stalls |-> Cardinality({rows[i].stall_id : i \in 1..Len(rows)}),
         vegetarian_items |-> Len(SelectSeq(rows, is_veg)),
         halal_items |-> Len(SelectSeq(rows, is_halal)),
         items_by_cuisine |-> groupby_size(rows)]

\* handler.filter_by_cuisine_preferences(prefs) of the file in use
run_filter(merged, prefs) ==
    IF impl = "feature_cuisine"
      THEN filter_by_cuisine_preferences(merged, prefs)
      ELSE filter_by_cuisine_preferences_ci(merged, prefs)

\* get_statistics(preferences): the filter runs again, and what it raises
\* goes to the caller
get_statistics(merged, prefs) ==
    LET r == run_filter(merged, prefs)
    IN  IF r.outcome = "returned" THEN statistics(r.df) ELSE [outcome |-> r.outcome]

\* display_filtered_items(filtered_df, max_display): the message for an
\* empty frame, else the count found and one entry for each of the first
\* max_display rows.  A missing allergens cell is a float nan: it is truthy
\* and its str is not 'none', so the Contains part is printed for it as well.
display_filtered_items(filtered_df, max_display) ==
    IF filtered_df = <<>>
      THEN [empty |-> TRUE, found |-> 0, lines |-> <<>>]
      ELSE
        LET n == IF max_display < Len(filtered_df) THEN max_display ELSE Len(filtered_df)
            line(row) ==
                [item_id |-> row.item_id, cuisine_type |-> row.cuisine_type,
                 vegetarian |-> row.vegetarian = Yes, halal |-> row.halal = Yes,
                 contains |-> lower(row.allergens) # <<"n", "o", "n", "e">>]
        IN  [empty |-> FALSE, found |-> Len(filtered_df),
             lines |-> [i \in 1..n |-> line(filtered_df[i])]]

\* the selector's max_display: 15 in src/feature_cuisine.py, 20 in src/test.py
max_display_of(file) == IF file = "feature_cuisine" THEN 15 ELSE 20

\* sorted(items, key=lambda x: x[1], reverse=True): by count, descending;
\* the sort is stable and reverse=True keeps the order of the dict among
\* equal counts
sorted_by_count_reverse(items) ==
    LET n == Len(items)
        rank(i) == Cardinality({j \in 1..n :
                       \/ items[j].count > items[i].count
                       \/ items[j].count = items[i].count /\ j < i})
    IN  [r \in 1..n |-> items[CHOOSE i \in 1..n : rank(i) = r - 1]]

\* export_for_team(preferences): the filter runs again; src/test.py writes no
\* file for an empty frame, src/feature_cuisine.py writes the header alone
export_for_team(merged, prefs) ==
    LET r == run_filter(merged, prefs)
    IN  IF r.outcome # "returned" THEN [outcome |-> r.outcome, written |-> FALSE, rows |-> <<>>]
        ELSE IF impl = "test" /\ r.df = <<>>
          THEN [outcome |-> "returned", written |-> FALSE, rows |-> <<>>]
        ELSE [outcome |-> "returned", written |-> TRUE, rows |-> r.df]

\* the preferences followed through display, statistics and export
StatsPreferences ==
    { [cuisines |-> <<>>, dietary_restrictions |-> <<>>, allergens_to_avoid |-> <<>>],
      [cuisines |-> <<>>, dietary_restrictions |-> <<vegetarian>>,
       allergens_to_avoid |-> <<>>],
      [cuisines |-> <<>>, dietary_restrictions |-> <<halal>>, allergens_to_avoid |-> <<>>],
      [cuisines |-> <<Malay, Chinese>>, dietary_restrictions |-> <<>>,
       allergens_to_avoid |-> <<>>],
      [cuisines |-> <<lower(Chinese)>>, dietary_restrictions |-> <<halal, vegetarian>>,
       allergens_to_avoid |-> <<>>],
      [cuisines |-> <<>>, dietary_restrictions |-> <<>>,
       allergens_to_avoid |-> <<<<"n", "u", "t", "s">>>>] }

\* what the user may answer to "Export results for team? (y/n)"
ExportChoices == { <<"y">>, <<" ", "Y">>, <<"y", "e", "s">>, <<"n">>, <<>> }

\* the answers that export: 'y' in src/feature_cuisine.py, 'y' and 'yes' in
\* src/test.py
export_wanted(export_choice) ==
    \/ export_choice = <<"y">>
    \/ impl = "test" /\ export_choice = <<"y", "e", "s">>

\* handler.display_filtered_items(filtered_items, max_display=...)
DisplayFilteredItems ==
    /\ fpc = "filtered"
    /\ result.outcome = "returned"
    /\ shown' = display_filtered_items(result.df, max_display_of(impl))
    /\ fpc' = "displayed"
    /\ UNCHANGED <<impl, menu_items_csv, stalls_csv, handler, preferences, result>>
    /\ UNCHANGED <<stats, breakdown, exported>>
    /\ UNCHANGED <<svars, bvars, mvars>>

\* stats = handler.get_statistics(preferences)
GetStatistics ==
    /\ fpc = "displayed"
    /\ stats' = get_statistics(handler.merged_df, preferences)
    /\ fpc' = "stats"
    /\ UNCHANGED <<impl, menu_items_csv, stalls_csv, handler, preferences, result>>
    /\ UNCHANGED <<shown, breakdown, exported>>
    /\ UNCHANGED <<svars, bvars, mvars>>

\* handler.get_statistics() without preferences: the whole merged frame,
\* loaded first if it has not been
GetStatisticsAll ==
    /\ fpc \in {"new", "loaded"}
    /\ handler' = IF handler.is_none THEN loaded_handler ELSE handler
    /\ stats' = statistics(handler'.merged_df)
    /\ fpc' = "stats_all"
    /\ UNCHANGED <<impl, menu_items_csv, stalls_csv, preferences, result>>
    /\ UNCHANGED <<shown, breakdown, exported>>
    /\ UNCHANGED <<svars, bvars, mvars>>

\* the statistics block of the selector down to "Breakdown by cuisine"
PrintStatistics ==
    /\ fpc = "stats"
    /\ stats.outcome = "returned"
    /\ breakdown' = sorted_by_count_reverse(stats.items_by_cuisine)
    /\ fpc' = "printed"
    /\ UNCHANGED <<impl, menu_items_csv, stalls_csv, handler, preferences, result>>
    /\ UNCHANGED <<shown, stats, exported>>
    /\ UNCHANGED <<svars, bvars, mvars>>

\* the export prompt: the answer is stripped and lower-cased
ExportChoice(export_choice) ==
    /\ fpc = "printed"
    /\ exported' = IF export_wanted(lower(strip(export_choice)))
                     THEN export_for_team(handler.merged_df, preferences)
                     ELSE None
    /\ fpc' = "done"
    /\ UNCHANGED <<impl, menu_items_csv, stalls_csv, handler, preferences, result>>
    /\ UNCHANGED <<shown, stats, breakdown>>
    /\ UNCHANGED <<svars, bvars, mvars>>

NextSelector ==
    \/ LoadData
    \/ \E prefs \in StatsPreferences : FilterByCuisinePreferences(prefs)
    \/ DisplayFilteredItems
    \/ GetStatistics
    \/ GetStatisticsAll
    \/ PrintStatistics
    \/ \E export_choice \in ExportChoices : ExportChoice(export_choice)

SpecSelector == InitFilter /\ [][NextSelector]_vars

\* ------------------------------------------------------------------ budget script
\* one row of hawker_centers.csv
Center(id) == [center_id |-> id, center_name |-> <<"H", "C">>]

\* the hawker_centers.csv files tried: both centres, the second missing, none
HawkerCenterTables == { <<Center(1), Center(2)>>, <<Center(1)>>, <<>> }

\* what the user may type at "Enter your budget: "
Budgets == { <<"0">>, <<" ", "1", " ">>, <<"2">>, <<"x">> }

\* float(text): on the texts of Budgets, whole numbers and texts that are no
\* number, float() accepts what int() accepts, with the same value
float(text) == int(text)

\* pd.merge(left, right, left_on=..., right_on=..., how="inner"): the left
\* rows in order, each once per right row that has its key, with the columns
\* of both; a left row whose key is in no right row is dropped
RECURSIVE pd_merge_inner(_, _, _, _)
pd_merge_inner(left, right, left_on, right_on) ==
    IF left = <<>> THEN <<>>
    ELSE
        LET l == Head(left)
            same(r) == r[right_on] = l[left_on]
            found == SelectSeq(right, same)
        IN  [k \in 1..Len(found) |-> l @@ found[k]]
                \o pd_merge_inner(Tail(left), right, left_on, right_on)

\* the script starts with its three files in place
BudgetInit ==
    /\ hawker_centers_csv \in HawkerCenterTables
    /\ full_data = None
    /\ recommended = None
    /\ bpc = "merge1"

\* The file holds the script twice, so it runs twice, one after the other:
\* the files are read and merged, then the budget is asked for.
InitBudget ==
    /\ ScriptIdle
    /\ HandlerInit
    /\ impl = "feature_cuisine"
    /\ TailIdle
    /\ MainIdle
    /\ BudgetInit

\* the merges without the second one: the hawker centres are never joined
BudgetMerge_stalls_only ==
    /\ bpc \in {"merge1", "merge2"}
    /\ full_data' = pd_merge_inner(menu_items_csv, stalls_csv, "stall_id", "stall_id")
    /\ bpc' = IF bpc = "merge1" THEN "budget1" ELSE "budget2"
    /\ UNCHANGED <<hawker_centers_csv, recommended>>
    /\ UNCHANGED <<svars, fvars, tvars, mvars>>

\* the three read_csv and the two merges
BudgetMerge ==
    /\ bpc \in {"merge1", "merge2"}
    /\ LET menu_stalls == pd_merge_inner(menu_items_csv, stalls_csv, "stall_id", "stall_id")
       IN  full_data' = pd_merge_inner(menu_stalls, hawker_centers_csv,
                                       "hawker_center_id", "center_id")
    /\ bpc' = IF bpc = "merge1" THEN "budget1" ELSE "budget2"
    /\ UNCHANGED <<hawker_centers_csv, recommended>>
    /\ UNCHANGED <<svars, fvars, tvars, mvars>>

\* budget = float(input(...)): a text that is no number raises ValueError,
\* which nothing catches; else the rows with price <= budget
BudgetRecommend(text) ==
    /\ bpc \in {"budget1", "budget2"}
    /\ LET budget == float(text)
           affordable(row) == row.price <= budget.val
       IN  IF budget.ok
             THEN /\ recommended' = SelectSeq(full_data, affordable)
                  /\ bpc' = IF bpc = "budget1" THEN "merge2" ELSE "done"
             ELSE /\ bpc' = "crashed"
                  /\ UNCHANGED recommended
    /\ UNCHANGED <<hawker_centers_csv, full_data>>
    /\ UNCHANGED <<svars, fvars, tvars, mvars>>

NextBudget ==
    \/ LoadData
    \/ BudgetMerge
    \/ \E text \in Budgets : BudgetRecommend(text)

SpecBudget == InitBudget /\ [][NextBudget]_vars

\* ------------------------------------------------------------------ main menu
\* src/main.py is loaded: feature_cuisine is imported and display_main_menu
\* defined; nothing has been printed or read
InitMain ==
    /\ ScriptIdle
    /\ HandlerIdle
    /\ TailIdle
    /\ BudgetIdle
    /\ mpc = "boot"
    /\ depth = 0
    /\ menu_choice = None

\* the file run as a script: line 35 calls main(), a name the file never
\* defines, and the NameError ends the process
RunMain ==
    /\ mpc = "boot"
    /\ mpc' = "NameError"
    /\ UNCHANGED <<depth, menu_choice>>
    /\ UNCHANGED <<svars, fvars, tvars, bvars>>

\* display_main_menu() called by an importer: the menu is printed and the
\* while loop, which is inside the function, entered
CallDisplayMainMenu ==
    /\ mpc = "boot"
    /\ mpc' = "menu"
    /\ depth' = 1
    /\ UNCHANGED menu_choice
    /\ UNCHANGED <<svars, fvars, tvars, bvars>>

\* The first statement of the loop body, line 18, calls display_main_menu()
\* again: the menu is printed once more and the new frame's loop entered.
\* The input() of line 19 and the branches of lines 21-31 are never reached.
DisplayMainMenu ==
    /\ mpc = "menu"
    /\ depth < MaxDepth
    /\ depth' = depth + 1
    /\ UNCHANGED <<mpc, menu_choice>>
    /\ UNCHANGED <<svars, fvars, tvars, bvars>>

\* no frame is left: RecursionError unwinds every frame, none catches it
RaiseRecursionError ==
    /\ mpc = "menu"
    /\ depth = MaxDepth
    /\ mpc' = "RecursionError"
    /\ depth' = 0
    /\ UNCHANGED menu_choice
    /\ UNCHANGED <<svars, fvars, tvars, bvars>>

NextMain ==
    \/ RunMain
    \/ CallDisplayMainMenu
    \/ DisplayMainMenu
    \/ RaiseRecursionError

SpecMain == InitMain /\ [][NextMain]_vars

\* ------------------------------------------------------------------ claims
\* the route calculate_best_route returned for the rows picked
route0 == calculate_best_route(user_coords, selected_rows).route

\* the stops of b are those of a, each as often
IsPermutationOf(a, b) ==
    /\ Len(a) = Len(b)
    /\ \A x \in {a[i] : i \in 1..Len(a)} \cup {b[i] : i \in 1..Len(b)} :
           Cardinality({i \in 1..Len(a) : a[i] = x})
               = Cardinality({i \in 1..Len(b) : b[i] = x})

\* C1: a reorder request that is not a bijection onto 1..len(route) is
\* rejected and leaves the itinerary as it was.
C1_NonBijectionRejected ==
    [][(pc = "edit" /\ edits' = edits + 1 /\ req' = "other")
          => itinerary' = itinerary]_vars

\* C2: in the edit loop and at the finalized itinerary, the itinerary is a
\* permutation of the route calculate_best_route returned.
C2_ItineraryIsPermutation ==
    pc \in {"edit", "final"} => IsPermutationOf(itinerary, route0)

\* where the planner stands before it places the stop at position k
loc_before(route, k) ==
    IF k = 1 THEN user_coords ELSE hc_coords(route[k - 1].idx)

\* C3: the route is greedy: the stop at every position k is, among the picked
\* stops not placed before k, one nearest to the stop at k - 1 (to the start
\* for the first); start (0,0) with stops at (0,1), (0,5), (0,3) gives
\* (0,1), (0,3), (0,5).
C3_GreedyRoute ==
    (pc = "edit" /\ edits = 0) =>
        /\ \A k \in 1..Len(itinerary) :
             LET placed == {itinerary[j].idx : j \in 1..(k - 1)}
                 left == {selected_rows[i] : i \in 1..Len(selected_rows)} \ placed
             IN  /\ itinerary[k].idx \in left
                 /\ \A l \in left :
                        geodesic(loc_before(itinerary, k), hc_coords(itinerary[k].idx))
                            <= geodesic(loc_before(itinerary, k), hc_coords(l))
        /\ (user_coords = <<0, 0>> /\ IsPermutationOf(selected_rows, <<0, 1, 2>>))
              => [k \in 1..3 |-> hc_coords(itinerary[k].idx)]
                     = << <<0, 1>>, <<0, 3>>, <<0, 5>> >>

C3_Witness ==
    /\ pc = "edit" /\ edits = 0
    /\ user_coords = <<0, 0>>
    /\ selected_rows = <<1, 2, 0>>
    /\ [k \in 1..Len(itinerary) |-> itinerary[k].idx] = <<0, 2, 1>>

\* C7: the selected list never holds a centre more than once.
C7_NoDuplicatePicks ==
    \A i, j \in 1..Len(selected_rows) :
        selected_rows[i] = selected_rows[j] => i = j

\* C8: the selected count never exceeds 5; the loop is left only with 1 to 5
\* rows; 'done' with nothing picked stays in the loop; with 5 rows picked the
\* loop is left without another prompt.
C8_LeftWithOneToFive ==
    /\ Len(selected_rows) <= 5
    /\ pc \in {"edit", "final", "crashed"} => Len(selected_rows) \in 1..5
    /\ pc = "select" => Len(selected_rows) < 5
    /\ out = "Please pick at least one!" => pc = "select" /\ selected_rows = <<>>

C8_Witness ==
    /\ pc = "edit"
    /\ Len(selected_rows) = 5
    /\ out = "Added"

\* C9: whenever the edit menu is up, a request that is a bijection p onto
\* 1..len(route) gives newRoute[i] = route[p[i] - 1] (0-based) for every
\* position i, and the new itinerary holds the same stops.
C9_ReorderApplies ==
    pc = "edit" =>
       \A o \in bijections[Len(itinerary)] :
          LET newRoute == reorder(itinerary, o).itinerary
          IN  /\ Len(newRoute) = Len(itinerary)
              /\ \A i \in 1..Len(itinerary) : newRoute[i] = itinerary[int_of[o[i]].val]
              /\ IsPermutationOf(newRoute, itinerary)

C9_Witness ==
    /\ pc = "edit"
    /\ req = "bijection"
    /\ Len(itinerary) = 3
    /\ itinerary = <<route0[3], route0[1], route0[2]>>
    /\ route0[1] # route0[3]


\* ------------------------------------------------------------------ handler claims
\* two texts are equal when case is ignored; a missing text equals nothing
EqIgnoringCase(a, b) ==
    /\ a # NaN
    /\ Len(a) = Len(b)
    /\ \A i \in 1..Len(a) : lower_char(a[i]) = lower_char(b[i])

\* needle occurs in hay at some offset when case is ignored; nothing occurs
\* in a missing text
OccursIgnoringCase(hay, needle) ==
    /\ hay # NaN
    /\ \E off \in 0..(Len(hay) - Len(needle)) :
           \A j \in 1..Len(needle) : lower_char(hay[off + j]) = lower_char(needle[j])

Mentions(list, text) == \E i \in 1..Len(list) : EqIgnoringCase(list[i], text)

\* the stages as the specification words them
CuisineOk(row, prefs) ==
    prefs.cuisines = <<>> \/ Mentions(prefs.cuisines, row.cuisine_type)

DietaryOk(row, prefs) ==
    /\ Mentions(prefs.dietary_restrictions, vegetarian)
          => EqIgnoringCase(row.vegetarian, Yes)
    /\ Mentions(prefs.dietary_restrictions, halal) => EqIgnoringCase(row.halal, Yes)

AllergenOk(row, prefs) ==
    \A i \in 1..Len(prefs.allergens_to_avoid) :
        ~OccursIgnoringCase(row.allergens, prefs.allergens_to_avoid[i])

\* the rows of a frame at which P holds, in order
Where(frame, P(_)) == SelectSeq(frame, P)

Rows(frame) == {frame[i] : i \in 1..Len(frame)}

Returned == fpc = "filtered" /\ result.outcome = "returned"

\* C4: the filter returns exactly the joined records that pass every active
\* stage, case ignored; in the end-to-end example (cuisines ["chinese"],
\* dietary ["vegetarian"]) exactly the first item.
C4_FilterIsConjunction ==
    Returned =>
        LET ok(row) ==
                /\ CuisineOk(row, preferences) /\ DietaryOk(row, preferences)
                /\ AllergenOk(row, preferences) /\ row.is_available = TRUE
        IN  /\ result.df = Where(handler.merged_df, ok)
            /\ ( /\ menu_items_csv = ExampleMenu
                 /\ stalls_csv = << Stall(1, Chinese, Yes, No), Stall(2, Malay, No, Yes) >>
                 /\ preferences = [cuisines |-> <<lower(Chinese)>>,
                                   dietary_restrictions |-> <<vegetarian>>,
                                   allergens_to_avoid |-> <<>>] )
                  => [i \in 1..Len(result.df) |-> result.df[i].item_id] = <<1>>

\* C5: with cuisines given, the cuisine stage keeps a record iff its stall's
\* cuisine type equals, case ignored, some entry of the preference.
C5_CuisineStageIgnoresCase ==
    (fpc = "filtered" /\ preferences.cuisines # <<>>) =>
        LET merged == handler.merged_df
            kept == {i \in 1..Len(merged) : Mentions(preferences.cuisines, merged[i].cuisine_type)}
            ok(row) ==
                /\ Mentions(preferences.cuisines, row.cuisine_type)
                /\ AllergenOk(row, preferences) /\ row.is_available = TRUE
        IN  /\ result.counts[2] = Cardinality(kept)
            /\ (result.outcome = "returned" /\ preferences.dietary_restrictions = <<>>)
                  => result.df = Where(merged, ok)

\* the rows that reach the allergen stage and are available: what the same
\* handler returns when no allergen is to be avoided
without_allergens ==
    LET prefs == [preferences EXCEPT !.allergens_to_avoid = <<>>]
    IN  IF impl = "feature_cuisine"
          THEN filter_by_cuisine_preferences(handler.merged_df, prefs).df
          ELSE filter_by_cuisine_preferences_ci(handler.merged_df, prefs).df

C10_EmptyPreferences ==
    ( /\ fpc = "filtered"
      /\ preferences.cuisines = <<>>
      /\ preferences.dietary_restrictions = <<>>
      /\ preferences.allergens_to_avoid = <<>> ) =>
        LET available(row) == row.is_available = TRUE
        IN  /\ result.outcome = "returned"
            /\ result.df = Where(handler.merged_df, available)
            /\ [i \in 1..Len(handler.merged_df) |-> handler.merged_df[i].item_id]
                   = [i \in 1..Len(menu_items_csv) |-> menu_items_csv[i].item_id]
            /\ \A i \in 1..Len(menu_items_csv) :
                   (menu_items_csv[i].is_available = TRUE /\ menu_items_csv[i].stall_id = 3)
                       => \E row \in Rows(result.df) :
                              /\ row.item_id = menu_items_csv[i].item_id
                              /\ row.cuisine_type = NaN

C10_Witness ==
    /\ Returned
    /\ preferences = [cuisines |-> <<>>, dietary_restrictions |-> <<>>,
                      allergens_to_avoid |-> <<>>]
    /\ \E row \in Rows(result.df) : row.cuisine_type = NaN /\ row.vegetarian = NaN
    /\ Len(result.df) < Len(handler.merged_df)

\* the filter of the handler in use on a frame cut from the loaded one (the
\* handler's merged_df set to that frame)
filter_again(rows, prefs) ==
    IF impl = "feature_cuisine"
      THEN filter_stages(allergens_is_text(handler.merged_df), rows, prefs)
      ELSE filter_stages_ci(allergens_is_text(handler.merged_df), rows, prefs)

\* C11: filtering is idempotent: the filter with preferences P on the result
\* of filtering with P returns, and returns the same records in the same
\* order.
C11_FilterIdempotent ==
    Returned =>
        LET again == filter_again(result.df, preferences)
        IN  /\ again.outcome = "returned"
            /\ again.df = result.df

C11_Witness ==
    /\ Returned
    /\ preferences.cuisines # <<>>
    /\ preferences.allergens_to_avoid # <<>>
    /\ result.df # <<>>
    /\ Len(result.df) < Len(handler.merged_df)
    /\ \E row \in Rows(result.df) : row.allergens = NaN

\* a is b with some rows left out, the others in b's order
RECURSIVE IsSubsequence(_, _)
IsSubsequence(a, b) ==
    IF a = <<>> THEN TRUE
    ELSE IF b = <<>> THEN FALSE
    ELSE IF Head(a) = Head(b) THEN IsSubsequence(Tail(a), Tail(b))
    ELSE IsSubsequence(a, Tail(b))

\* C20: every stage that ran returned a subsequence of what it was given (no
\* record added, the order kept), the first stage was given the loaded frame,
\* the counts printed are the sizes stage by stage and never grow, and the
\* value returned is what the last stage left.
C20_StagesAreSubsequences ==
    fpc = "filtered" =>
        /\ result.frames[1] = handler.merged_df
        /\ Len(result.counts) = Len(result.frames)
        /\ \A i \in 1..Len(result.frames) : result.counts[i] = Len(result.frames[i])
        /\ \A i \in 2..Len(result.frames) :
               /\ IsSubsequence(result.frames[i], result.frames[i - 1])
               /\ result.counts[i] <= result.counts[i - 1]
        /\ result.outcome = "returned" => result.df = result.frames[Len(result.frames)]

C20_Witness ==
    /\ Returned
    /\ Len(result.frames) = 6
    /\ result.counts[2] < result.counts[1]
    /\ result.counts[6] < result.counts[5]
    /\ result.df # <<>>

\* ------------------------------------------------------------------ script claims, continued
\* C14: an address the geocoder does not find, or a geocoder that raises,
\* leaves the script at the start-location prompt with no coordinates (it
\* neither ends nor goes on), and the script is past that prompt only with a
\* resolved (latitude, longitude) pair.
C14_StartLocationRecoverable ==
    /\ out \in {"Location not found.", "Geocoding error. Location not found."}
          => pc = "start" /\ user_coords = None
    /\ pc \in {"select", "edit", "final", "crashed"}
          => /\ user_coords \in GeoCoords
             /\ Len(user_coords) = 2
    /\ pc = "start" => selected_rows = <<>> /\ itinerary = <<>>

C14_Witness ==
    /\ pc = "start"
    /\ out = "Geocoding error. Location not found."
    /\ user_coords = None

\* C16: for the rows the selection loop hands over, calculate_best_route
\* returns (one iteration a row) a route with one entry per picked row, each
\* entry a single row.
C16_OneStopPerPick ==
    pc \in {"edit", "final", "crashed"} =>
        LET r == calculate_best_route(user_coords, selected_rows)
        IN  /\ ~r.raised
            /\ Len(r.route) = Len(selected_rows)
            /\ \A k \in 1..Len(r.route) : r.route[k].rows = 1

\* C17: at every position of the route, no stop that stood earlier in
\* remaining (the picked rows not yet placed, in pick order) is as near to
\* the current location as the stop chosen.
C17_TieFirstInRemaining ==
    (pc = "edit" /\ edits = 0) =>
        \A k \in 1..Len(itinerary) :
            LET placed == {itinerary[j].idx : j \in 1..(k - 1)}
                not_placed(l) == l \notin placed
                remaining == SelectSeq(selected_rows, not_placed)
                d(l) == geodesic(loc_before(itinerary, k), hc_coords(l))
                chosen == itinerary[k].idx
            IN  /\ \E p \in 1..Len(remaining) : remaining[p] = chosen
                /\ \A p, q \in 1..Len(remaining) :
                       (remaining[p] = chosen /\ d(remaining[q]) = d(chosen)
                           /\ \A j \in 1..(p - 1) : remaining[j] # chosen)
                       => p <= q

C17_Witness ==
    /\ pc = "edit" /\ edits = 0
    /\ user_coords = <<0, 2>>
    /\ selected_rows = <<2, 0>>
    /\ geodesic(user_coords, hc_coords(2)) = geodesic(user_coords, hc_coords(0))
    /\ [k \in 1..Len(itinerary) |-> itinerary[k].idx] = <<2, 0>>

\* ------------------------------------------------------------------ claims after the filter
Has(list, text) == \E i \in 1..Len(list) : list[i] = text

\* C13: an empty filter result goes through every consumer: display prints
\* the no-items message, get_statistics returns total_items 0 and an empty
\* items_by_cuisine, the breakdown has no line, export returns with no row;
\* get_statistics over an empty merged frame gives the same; none raises.
C13_EmptyResultIsValid ==
    /\ (fpc \in {"displayed", "stats", "printed", "done"} /\ result.df = <<>>)
          => shown = [empty |-> TRUE, found |-> 0, lines |-> <<>>]
    /\ (fpc \in {"stats", "printed", "done"} /\ result.df = <<>>)
          => /\ stats.outcome = "returned"
             /\ stats.total_items = 0
             /\ stats.total_stalls = 0
             /\ stats.vegetarian_items = 0
             /\ stats.halal_items = 0
             /\ stats.items_by_cuisine = <<>>
    /\ (fpc \in {"printed", "done"} /\ result.df = <<>>) => breakdown = <<>>
    /\ (fpc = "done" /\ result.df = <<>> /\ exported # None)
          => /\ exported.outcome = "returned"
             /\ exported.rows = <<>>
    /\ (fpc = "stats_all" /\ handler.merged_df = <<>>)
          => /\ stats.outcome = "returned"
             /\ stats.total_items = 0
             /\ stats.items_by_cuisine = <<>>

C13_Witness ==
    /\ fpc = "done"
    /\ handler.merged_df # <<>>
    /\ result.df = <<>>
    /\ shown.empty
    /\ stats.total_items = 0
    /\ exported # None

\* C18: with 'vegetarian' among the dietary restrictions get_statistics
\* reports vegetarian_items equal to total_items, and with 'halal' halal_items
\* equal to total_items.
C18_StatisticsAgreeWithFilter ==
    (fpc \in {"stats", "printed", "done"} /\ stats.outcome = "returned") =>
        /\ Has(preferences.dietary_restrictions, vegetarian)
              => stats.vegetarian_items = stats.total_items
        /\ Has(preferences.dietary_restrictions, halal)
              => stats.halal_items = stats.total_items

\* the row of the filtered records where a cuisine is met first
first_encounter(cuisine) ==
    CHOOSE i \in 1..Len(result.df) :
        /\ result.df[i].cuisine_type = cuisine
        /\ \A j \in 1..(i - 1) : result.df[j].cuisine_type # cuisine

\* C19: the breakdown lists the cuisines by descending count, and cuisines
\* with equal counts in the order in which the filtered records meet them.
C19_BreakdownOrder ==
    fpc \in {"printed", "done"} =>
        \A a, b \in 1..Len(breakdown) :
            a < b =>
                \/ breakdown[a].count > breakdown[b].count
                \/ /\ breakdown[a].count = breakdown[b].count
                   /\ first_encounter(breakdown[a].cuisine)
                          < first_encounter(breakdown[b].cuisine)

\* ------------------------------------------------------------------ joins
\* the menu item's stall_id is in stalls.csv
stall_resolved(item) == \E i \in 1..Len(stalls_csv) : stalls_csv[i].stall_id = item.stall_id

\* and that stall's hawker_center_id is in hawker_centers.csv
center_resolved(item) ==
    \E i \in 1..Len(stalls_csv) :
        /\ stalls_csv[i].stall_id = item.stall_id
        /\ \E c \in 1..Len(hawker_centers_csv) :
               hawker_centers_csv[c].center_id = stalls_csv[i].hawker_center_id

item_ids(rows) == [i \in 1..Len(rows) |-> rows[i].item_id]

\* C12: the inner joins of the budget script keep exactly the menu items
\* whose stall and whose stall's hawker centre are found, in the file's order;
\* the left join of load_data keeps every menu item, with missing stall
\* fields when the stall is not found; on the items both keep, the stall
\* fields are the same.
C12_JoinsDifferOnUnresolvedKeys ==
    (full_data # None /\ fpc = "loaded") =>
        LET kept(item) == stall_resolved(item) /\ center_resolved(item)
        IN  /\ item_ids(full_data) = item_ids(SelectSeq(menu_items_csv, kept))
            /\ item_ids(handler.merged_df) = item_ids(menu_items_csv)
            /\ \A i \in 1..Len(handler.merged_df) :
                   ~stall_resolved(menu_items_csv[i])
                       => /\ handler.merged_df[i].cuisine_type = NaN
                          /\ handler.merged_df[i].vegetarian = NaN
                          /\ handler.merged_df[i].halal = NaN
            /\ \A row \in Rows(full_data) :
                   \E i \in 1..Len(handler.merged_df) :
                       /\ handler.merged_df[i].item_id = row.item_id
                       /\ handler.merged_df[i].cuisine_type = row.cuisine_type
                       /\ handler.merged_df[i].vegetarian = row.vegetarian
                       /\ handler.merged_df[i].halal = row.halal

C12_Witness ==
    /\ fpc = "loaded"
    /\ bpc = "budget2"
    /\ Len(menu_items_csv) = 2
    /\ menu_items_csv[1].stall_id = 3
    /\ menu_items_csv[2].stall_id = 2
    /\ hawker_centers_csv = <<Center(1)>>
    /\ full_data = <<>>
    /\ Len(handler.merged_df) = 2

\* ------------------------------------------------------------------ main menu claims
\* C15: a choice is read after each display of the menu (the menu is never
\* up a second time with no choice read), and the process has ended only
\* with the exit choice 4 read.
C15_MenuLoopsUntilExit ==
    /\ mpc \in {"NameError", "RecursionError"} => menu_choice = <<"4">>
    /\ (mpc = "menu" /\ depth > 1) => menu_choice # None

====
